---- MODULE Spec2Model ----
(***************************************************************************)
(* Model of the WBMetaJsonGeneratorPlugin (src/index.js): the annotation   *)
(* extractor (isValidFile, getFileDescription), the tree builder           *)
(* (generateDirectoryObject), the metadata document generator              *)
(* (generateMetaJson and its helpers) and the emit callback of the plugin. *)
(*                                                                         *)
(* Text is a sequence of characters.  The two markers are single           *)
(* characters of the model ("@description", "@ignore"): a marker cannot    *)
(* overlap itself, so every split/includes on a marker behaves on the      *)
(* model as on the string.  The escaped line break of the development      *)
(* build is the two characters backslash, n; the escaped carriage return   *)
(* is backslash, r.                                                        *)
(***************************************************************************)
EXTENDS Integers, Sequences, FiniteSets, TLC

(***************************************************************************)
(* Bounds of the model.                                                    *)
(***************************************************************************)
MaxLineLen == 3
MaxLines == 2
MaxAssets == 3
MaxEmitAssets == 2
MaxAnnotations == 2

(***************************************************************************)
(* Characters.                                                             *)
(***************************************************************************)
LF == "LF"
CR == "CR"
SP == "SP"
BS == "BS"
DescMarker == "@description"
IgnoreMarker == "@ignore"
EscapedLF == <<BS, "n">>
EscapedCR == <<BS, "r">>
Whitespace == {SP, CR, LF}

(***************************************************************************)
(* String primitives of JavaScript, on sequences of characters.            *)
(***************************************************************************)
\* sep occurs in s at position i
OccursAt(s, sep, i) ==
    /\ i >= 1
    /\ i + Len(sep) - 1 <= Len(s)
    /\ \A k \in 1..Len(sep) : s[i + k - 1] = sep[k]

\* String.prototype.indexOf from position i (0 when there is none)
RECURSIVE IndexFrom(_, _, _)
IndexFrom(s, sep, i) ==
    IF i + Len(sep) - 1 > Len(s) THEN 0
    ELSE IF OccursAt(s, sep, i) THEN i
    ELSE IndexFrom(s, sep, i + 1)

\* String.prototype.includes
Includes(s, sep) == IndexFrom(s, sep, 1) # 0

\* String.prototype.split with a non-empty separator
RECURSIVE Split(_, _)
Split(s, sep) ==
    LET i == IndexFrom(s, sep, 1)
    IN  IF i = 0 THEN <<s>>
        ELSE <<SubSeq(s, 1, i - 1)>> \o Split(SubSeq(s, i + Len(sep), Len(s)), sep)

\* String.prototype.replace(pattern, "") with a string pattern: first occurrence only
ReplaceFirst(s, pat) ==
    LET i == IndexFrom(s, pat, 1)
    IN  IF i = 0 THEN s
        ELSE SubSeq(s, 1, i - 1) \o SubSeq(s, i + Len(pat), Len(s))

\* String.prototype.trim
RECURSIVE TrimLeft(_)
TrimLeft(s) ==
    IF s # <<>> /\ Head(s) \in Whitespace THEN TrimLeft(Tail(s)) ELSE s

RECURSIVE TrimRight(_)
TrimRight(s) ==
    IF s # <<>> /\ s[Len(s)] \in Whitespace THEN TrimRight(SubSeq(s, 1, Len(s) - 1)) ELSE s

Trim(s) == TrimRight(TrimLeft(s))

\* (Array.prototype.filter is SelectSeq of Sequences)

\* Array.prototype.pop's result
Last(seq) == seq[Len(seq)]

\* Array.prototype.join
RECURSIVE Join(_, _)
Join(seq, sep) ==
    IF seq = <<>> THEN <<>>
    ELSE IF Len(seq) = 1 THEN seq[1]
    ELSE seq[1] \o sep \o Join(Tail(seq), sep)

(***************************************************************************)
(* Annotation extractor.                                                   *)
(***************************************************************************)
HasDesc(line) == Includes(line, <<DescMarker>>)
HasIgnore(line) == Includes(line, <<IgnoreMarker>>)
StripCR(val) == ReplaceFirst(val, EscapedCR)

\* index.js getFileDescription
getFileDescription(fileContent, environment) ==
    LET descriptionComment == SelectSeq(Split(fileContent, <<LF>>), HasDesc)
        descriptionToken ==
            IF descriptionComment = <<>> THEN <<>>
            ELSE LET tokens == SelectSeq(Split(descriptionComment[1], EscapedLF), HasDesc)
                 IN  [i \in 1..Len(tokens) |-> StripCR(tokens[i])]
        description ==
            IF environment = "production"
            THEN IF Len(descriptionComment) > 0
                 THEN Last(Split(descriptionComment[1], <<DescMarker>>))
                 ELSE <<>>
            ELSE IF Len(descriptionComment) > 0 /\ Len(descriptionToken) > 0
                 THEN Last(Split(descriptionToken[1], <<DescMarker>>))
                 ELSE <<>>
    IN  Trim(description)

\* the marker looked for on the first line only
FirstLineIgnored(content) == HasIgnore(Split(content, <<LF>>)[1])

\* the content test of index.js isValidFile
ContentIgnored(content) == SelectSeq(Split(content, <<LF>>), HasIgnore) # <<>>

(***************************************************************************)
(* Paths, artifacts and the artifact collection.                           *)
(*                                                                         *)
(* An output path is kept as what split("/") makes of it: the segments     *)
(* before the last one (dirs, a leading "" for a leading slash) and the    *)
(* last segment (file), itself kept as what split(".") makes of it.        *)
(* "/a/one.js" is [dirs |-> <<"", "a">>, file |-> <<"one", "js">>].  token *)
(* is 0 but for an icon output path, "icons/<base>-<uuid>.<ext>", where it *)
(* is the number of the uuid drawn.  The collection (compilation.assets)   *)
(* is a sequence of key/value pairs with unique keys, in insertion order:  *)
(* the order of for-in and of Object.keys for keys that are no integers.   *)
(***************************************************************************)
Key(dirs, file) == [dirs |-> dirs, file |-> file, token |-> 0]

TextSource(text) == [kind |-> "text", text |-> text]

Keys(coll) == {coll[i].key : i \in 1..Len(coll)}

Lookup(coll, key) == (CHOOSE i \in 1..Len(coll) : coll[i].key = key)

\* coll[key] = val of JavaScript: in place for a key that exists, appended otherwise
Assign(coll, key, val) ==
    IF key \in Keys(coll)
    THEN [coll EXCEPT ![Lookup(coll, key)] = [key |-> key, val |-> val]]
    ELSE Append(coll, [key |-> key, val |-> val])

\* the extensions of invalidFilesRegex
InvalidExt == {"gif", "svg", "jpg", "jpeg", "png", "PNG", "json"}

\* invalidFilesRegex.test(fileName): the path ends with a dot and one of the extensions
RejectedByExtension(key) == Len(key.file) >= 2 /\ Last(key.file) \in InvalidExt

\* index.js isValidFile
isValidFile(compilationAssestsObject, key) ==
    IF RejectedByExtension(key) THEN FALSE
    ELSE ~ContentIgnored(compilationAssestsObject[Lookup(compilationAssestsObject, key)].val.text)

(***************************************************************************)
(* Values of the configuration.                                            *)
(*                                                                         *)
(* A text field that is missing is undefined, which a template literal     *)
(* renders as the text "undefined": Undefined stands for both.  An icon    *)
(* reference is a record: kind "remote" for one httpUrlRegex matches,      *)
(* "local" for any other non-empty one, "dist" for the rewritten           *)
(* "icons/<base>-<uuid token>.<ext>", "empty" for "" and "undefined".      *)
(***************************************************************************)
Undefined == <<"undefined">>
EmptyIcon == [kind |-> "empty", base |-> "", ext |-> "", token |-> 0]
UndefinedIcon == [kind |-> "undefined", base |-> "", ext |-> "", token |-> 0]
RemoteIcon(base) == [kind |-> "remote", base |-> base, ext |-> "png", token |-> 0]
LocalIcon(base) == [kind |-> "local", base |-> base, ext |-> "png", token |-> 0]

\* truthiness of a text and of an icon reference
TruthyText(t) == t # <<>> /\ t # Undefined
TruthyIcon(i) == i.kind \notin {"empty", "undefined"}
\* httpUrlRegex.test
IsHttpUrl(i) == i.kind = "remote"

PackageName == "pkg"
PackageDescription == <<"P">>

\* property names every object inherits: folders[name] is truthy for them
InheritedNames == {"constructor"}

(***************************************************************************)
(* The directory tree.  The nested object of the code is kept flat: a      *)
(* function from the sequence of child names that leads to a node to the   *)
(* node.  folders holds the node's own keys in insertion order;            *)
(* parentPath holds the folder names of "/<name>/<name>/" ("/" is <<>>).   *)
(***************************************************************************)
RootNode(packageDescription, packageIcon) ==
    [files |-> <<>>, folders |-> <<>>, parentPath |-> <<>>,
     description |-> packageDescription, defaultAction |-> <<>>, icon |-> packageIcon]

Range(seq) == {seq[i] : i \in 1..Len(seq)}

\* the annotation looked up by the path without its leading slash
NewFolderNodeByRelativePath(parent, folder, joinedPath, folderInfo) ==
    LET relative == Tail(joinedPath)
        known == relative \in DOMAIN folderInfo
        folderDefaultAction == IF known THEN folderInfo[relative].defaultAction ELSE <<>>
    IN  [files |-> <<>>, folders |-> <<>>, parentPath |-> Append(parent, folder),
         description |-> IF known THEN folderInfo[relative].description ELSE <<>>,
         defaultAction |-> IF TruthyText(folderDefaultAction) THEN folderDefaultAction ELSE <<>>,
         icon |-> IF known THEN folderInfo[relative].distIconPath ELSE EmptyIcon]

\* index.js generateDirectoryObject, lines 203-217: the node of a folder seen first
NewFolderNode(parent, folder, joinedPath, folderInfo) ==
    LET known == joinedPath \in DOMAIN folderInfo
        folderDefaultAction == IF known THEN folderInfo[joinedPath].defaultAction ELSE <<>>
        folderDesc == IF known THEN folderInfo[joinedPath].description ELSE <<>>
        folderIcon == IF known THEN folderInfo[joinedPath].distIconPath ELSE EmptyIcon
    IN  [files |-> <<>>, folders |-> <<>>, parentPath |-> Append(parent, folder),
         description |-> folderDesc,
         defaultAction |-> IF TruthyText(folderDefaultAction) THEN folderDefaultAction ELSE <<>>,
         icon |-> folderIcon]

\* the walk without the test of line 203: a folder seen again is made again
RECURSIVE WalkFoldersAlwaysCreate(_, _, _, _, _)
WalkFoldersAlwaysCreate(tree, at, foreign, path, folderInfo) ==
    IF path = <<>> THEN [tree |-> tree, at |-> at, foreign |-> foreign, threw |-> FALSE]
    ELSE
        LET folder == Head(path)
            child == Append(at, folder)
        IN  WalkFoldersAlwaysCreate(
                [p \in DOMAIN tree \cup {child} |->
                    IF p = child
                    THEN NewFolderNode(tree[at].parentPath, folder, <<"">> \o child, folderInfo)
                    ELSE IF p = at /\ folder \notin Range(tree[at].folders)
                    THEN [tree[at] EXCEPT !.folders = Append(@, folder)]
                    ELSE tree[p]],
                child, FALSE, Tail(path), folderInfo)

\* index.js generateDirectoryObject, lines 195-220: the walk down the folders of
\* one path.  at is the node reached; foreign: the walk has left the tree for an
\* inherited property (Object for "constructor"), which has no files, no folders.
RECURSIVE WalkFolders(_, _, _, _, _)
WalkFolders(tree, at, foreign, path, folderInfo) ==
    IF path = <<>> THEN [tree |-> tree, at |-> at, foreign |-> foreign, threw |-> FALSE]
    ELSE IF foreign THEN [tree |-> tree, at |-> at, foreign |-> TRUE, threw |-> TRUE]
    ELSE
        LET folder == Head(path)
            visitedPaths == <<"">> \o at \o <<folder>>
            child == Append(at, folder)
        IN  IF folder \in Range(tree[at].folders)
            THEN WalkFolders(tree, child, FALSE, Tail(path), folderInfo)
            ELSE IF folder \in InheritedNames
            THEN WalkFolders(tree, at, TRUE, Tail(path), folderInfo)
            ELSE WalkFolders(
                    [p \in DOMAIN tree \cup {child} |->
                        IF p = child
                        THEN NewFolderNode(tree[at].parentPath, folder, visitedPaths, folderInfo)
                        ELSE IF p = at
                        THEN [tree[at] EXCEPT !.folders = Append(@, folder)]
                        ELSE tree[p]],
                    child, FALSE, Tail(path), folderInfo)

\* the leading empty segment kept: the shift of line 191 left out
KeepLeadingEmpty(path) == path

\* path.shift() of a leading empty segment (line 191)
DropLeadingEmpty(path) ==
    IF Len(path) > 0 /\ path[1] = "" THEN Tail(path) ELSE path

\* the folders made before the artifact is tested: the continue of line 184 late
VisitAssetWalkFirst(tree, compilationAssestsObject, i, folderInfo, environment) ==
    LET filename == compilationAssestsObject[i].key
        w == WalkFolders(tree, <<>>, FALSE, DropLeadingEmpty(filename.dirs), folderInfo)
    IN  IF w.threw THEN [tree |-> tree, threw |-> TRUE]
        ELSE IF w.foreign \/ ~isValidFile(compilationAssestsObject, filename)
        THEN [tree |-> w.tree, threw |-> FALSE]
        ELSE [tree |-> [w.tree EXCEPT ![w.at].files =
                            Append(@, [fileName |-> filename.file,
                                       description |-> getFileDescription(
                                            compilationAssestsObject[i].val.text, environment)])],
              threw |-> FALSE]

\* index.js generateDirectoryObject, lines 183-226: one turn of the loop over the
\* collection.  [tree, threw]: the tree after the turn, or the turn threw.
VisitAsset(tree, compilationAssestsObject, i, folderInfo, environment) ==
    LET filename == compilationAssestsObject[i].key
        content == compilationAssestsObject[i].val.text
    IN  IF ~isValidFile(compilationAssestsObject, filename)
        THEN [tree |-> tree, threw |-> FALSE]
        ELSE
            LET fileDesc == getFileDescription(content, environment)
                w == WalkFolders(tree, <<>>, FALSE, DropLeadingEmpty(filename.dirs), folderInfo)
            IN  IF w.threw THEN [tree |-> tree, threw |-> TRUE]
                ELSE IF w.foreign THEN [tree |-> w.tree, threw |-> FALSE]
                ELSE [tree |-> [w.tree EXCEPT ![w.at].files =
                                    Append(@, [fileName |-> filename.file, description |-> fileDesc])],
                      threw |-> FALSE]

\* index.js generateDirectoryObject: the loop from turn i on
RECURSIVE VisitFrom(_, _, _, _, _)
VisitFrom(tree, compilationAssestsObject, i, folderInfo, environment) ==
    IF i > Len(compilationAssestsObject) THEN [tree |-> tree, threw |-> FALSE]
    ELSE LET v == VisitAsset(tree, compilationAssestsObject, i, folderInfo, environment)
         IN  IF v.threw THEN v
             ELSE VisitFrom(v.tree, compilationAssestsObject, i + 1, folderInfo, environment)

\* index.js generateDirectoryObject (sites is carried by the root and read by
\* nothing that writes output)
generateDirectoryObject(compilationAssestsObject, packageDescription, packageIcon, folderInfo, environment) ==
    VisitFrom(<<>> :> RootNode(packageDescription, packageIcon),
              compilationAssestsObject, 1, folderInfo, environment)

(***************************************************************************)
(* The metadata documents.  A document text is kept as the values the      *)
(* template interpolates; the scripts text is kept as its sequence of      *)
(* tokens: "[", "," and "]" and the records between them.                  *)
(***************************************************************************)
Punct(c) == [type |-> c]

\* fileName.replace(/\.[^/.]+$/, "")
WithoutExt(fileName) ==
    IF Len(fileName) >= 2 /\ Last(fileName) # "" THEN SubSeq(fileName, 1, Len(fileName) - 1)
    ELSE fileName

\* index.js getFileScripts
getFileScripts(fileObject) ==
    [name |-> WithoutExt(fileObject.fileName), file |-> fileObject.fileName,
     type |-> "action", description |-> fileObject.description]

\* index.js getFolderScripts
getFolderScripts(folderObject) ==
    [name |-> <<folderObject.folderName>>, file |-> <<folderObject.folderName>>,
     type |-> "folder", description |-> folderObject.description]

\* fileName.includes('.json')
IncludesDotJson(fileName) == \E k \in 2..Len(fileName) : fileName[k] = "json"

\* the test made of the extension alone
NotJsonByExtension(fileObject) == Last(fileObject.fileName) # "json"

\* the filter of line 56
NotJson(fileObject) == ~IncludesDotJson(fileObject.fileName)

\* script + ',' for every script
RECURSIVE CommaAfterEach(_)
CommaAfterEach(scripts) ==
    IF scripts = <<>> THEN <<>>
    ELSE <<Head(scripts), Punct(",")>> \o CommaAfterEach(Tail(scripts))

\* String.prototype.slice(0, -1)
DropLast(s) == SubSeq(s, 1, Len(s) - 1)

\* index.js getMetaScripts
getMetaScripts(dirFiles, dirFolders) ==
    LET files == SelectSeq(dirFiles, NotJson)
        scripts == [i \in 1..Len(files) |-> getFileScripts(files[i])]
                   \o [i \in 1..Len(dirFolders) |-> getFolderScripts(dirFolders[i])]
        scriptContent == <<Punct("[")>> \o CommaAfterEach(scripts)
    IN  DropLast(scriptContent) \o <<Punct("]")>>

\* index.js getMetaJsonContent: the icon line is there for a truthy icon only
getMetaJsonContent(dirFiles, dirFolders, dirName, dirDesc, defaultAction, icon) ==
    [name |-> dirName, description |-> dirDesc, defaultAction |-> defaultAction,
     icon |-> IF TruthyIcon(icon) THEN <<icon>> ELSE <<>>,
     scripts |-> getMetaScripts(dirFiles, dirFolders)]

\* the folder names that are canonical array indices, with their values
ArrayIndex == ("1" :> 1) @@ ("2" :> 2)

IsArrayIndex(name) == name \in DOMAIN ArrayIndex

IsNoArrayIndex(name) == ~IsArrayIndex(name)

RECURSIVE Ascending(_)
Ascending(names) ==
    IF names = <<>> THEN <<>>
    ELSE LET least == CHOOSE n \in Range(names) :
                        \A o \in Range(names) : ArrayIndex[n] <= ArrayIndex[o]
         IN  <<least>> \o Ascending(SelectSeq(names, LAMBDA n : n # least))

\* the keys in the order of their insertion, whatever they are
KeysAsInserted(folders) == folders

\* Object.keys(dirObject.folders), line 129: the array indices in ascending
\* order, then the other names in the order of their insertion
ObjectKeys(folders) ==
    Ascending(SelectSeq(folders, IsArrayIndex)) \o SelectSeq(folders, IsNoArrayIndex)

\* index.js generateMetaJson, on the node at of the tree
RECURSIVE generateMetaJson(_, _, _)
RECURSIVE ExploreFolders(_, _, _)
generateMetaJson(tree, at, dirName) ==
    LET dirObject == tree[at]
        folderNames == ObjectKeys(dirObject.folders)
        folderObjects == [i \in 1..Len(folderNames) |->
                            [folderName |-> folderNames[i],
                             description |-> tree[Append(at, folderNames[i])].description]]
        metaJsonObject ==
            [path |-> dirObject.parentPath,
             content |-> getMetaJsonContent(dirObject.files, folderObjects, dirName,
                            dirObject.description, dirObject.defaultAction, dirObject.icon)]
    IN  <<metaJsonObject>> \o ExploreFolders(tree, at, folderObjects)

\* index.js generateMetaJson, lines 147-151: pop a folder, explore it, until none is left
ExploreFolders(tree, at, folderObjects) ==
    IF Len(folderObjects) = 0 THEN <<>>
    ELSE LET currentFolderObject == Last(folderObjects)
         IN  generateMetaJson(tree, Append(at, currentFolderObject.folderName),
                              currentFolderObject.folderName)
             \o ExploreFolders(tree, at, DropLast(folderObjects))

(***************************************************************************)
(* Icons, the README file and the steps of the emit callback.              *)
(*                                                                         *)
(* A local file is named by the base of its name; fs.readFileSync throws   *)
(* for a file that is not among ReadableFiles.  uuidv4() is the number of  *)
(* the draw: every draw gives a token no earlier draw gave.                *)
(***************************************************************************)
ReadableFiles == {"fa", "fz", "lp", "README.md"}

Blob(file) == [kind |-> "blob", file |-> file]

MetaSource(content) == [kind |-> "meta", content |-> content]

\* the key of "icons/<base>-<uuid>.<ext>"
IconKey(icon) == [dirs |-> <<"icons">>, file |-> <<icon.base, icon.ext>>, token |-> icon.token]

\* the key of `${metaInfo.path}/meta.json`: the path ends with a slash already
MetaKey(path) == Key(<<"">> \o path \o <<"">>, <<"meta", "json">>)

\* the key '/README.md'
ReadmeKey == Key(<<"">>, <<"README", "md">>)

\* fs.readFileSync of `${compilerContext}/${relativeIconPath}` returns: the path
\* names a file of the project (an output path under icons/ names none)
CanRead(relativeIconPath) ==
    relativeIconPath.kind = "local" /\ relativeIconPath.base \in ReadableFiles

\* index.js getLocalIconData, the draw being number uuid
getLocalIconData(relativeIconPath, uuid) ==
    IF ~CanRead(relativeIconPath)
    THEN [threw |-> TRUE, path |-> UndefinedIcon, content |-> Blob("")]
    ELSE [threw |-> FALSE,
          path |-> [kind |-> "dist", base |-> relativeIconPath.base,
                    ext |-> relativeIconPath.ext, token |-> uuid],
          content |-> Blob(relativeIconPath.base)]

\* the rewritten path stored in iconPath itself, not in distIconPath alone
RECURSIVE FolderIconsOverwritingIconPath(_, _, _, _)
FolderIconsOverwritingIconPath(folderDescriptionList, i, folderIconData, uuids) ==
    IF i > Len(folderDescriptionList)
    THEN [list |-> folderDescriptionList, icons |-> folderIconData, uuids |-> uuids, threw |-> FALSE]
    ELSE LET folderData == folderDescriptionList[i]
         IN  IF ~(TruthyIcon(folderData.iconPath) /\ ~IsHttpUrl(folderData.iconPath))
             THEN FolderIconsOverwritingIconPath(folderDescriptionList, i + 1, folderIconData, uuids)
             ELSE LET iconDataObject == getLocalIconData(folderData.iconPath, uuids + 1)
                  IN  IF iconDataObject.threw
                      THEN [list |-> folderDescriptionList, icons |-> folderIconData,
                            uuids |-> uuids, threw |-> TRUE]
                      ELSE FolderIconsOverwritingIconPath(
                               [folderDescriptionList EXCEPT ![i].distIconPath = iconDataObject.path,
                                                             ![i].iconPath = iconDataObject.path],
                               i + 1,
                               Append(folderIconData, [path |-> iconDataObject.path,
                                                       content |-> iconDataObject.content]),
                               uuids + 1)

\* index.js getFolderIconsInfo from annotation i on: the list with distIconPath
\* set, the icons read, the number of uuids drawn, or the read that threw
RECURSIVE FolderIconsFrom(_, _, _, _)
FolderIconsFrom(folderDescriptionList, i, folderIconData, uuids) ==
    IF i > Len(folderDescriptionList)
    THEN [list |-> folderDescriptionList, icons |-> folderIconData, uuids |-> uuids, threw |-> FALSE]
    ELSE LET folderData == folderDescriptionList[i]
         IN  IF ~(TruthyIcon(folderData.iconPath) /\ ~IsHttpUrl(folderData.iconPath))
             THEN FolderIconsFrom(folderDescriptionList, i + 1, folderIconData, uuids)
             ELSE LET iconDataObject == getLocalIconData(folderData.iconPath, uuids + 1)
                  IN  IF iconDataObject.threw
                      THEN [list |-> folderDescriptionList, icons |-> folderIconData,
                            uuids |-> uuids, threw |-> TRUE]
                      ELSE FolderIconsFrom(
                               [folderDescriptionList EXCEPT ![i].distIconPath = iconDataObject.path],
                               i + 1,
                               Append(folderIconData, [path |-> iconDataObject.path,
                                                       content |-> iconDataObject.content]),
                               uuids + 1)

\* index.js getFolderIconsInfo
getFolderIconsInfo(folderDescriptionList, uuids) ==
    FolderIconsFrom(folderDescriptionList, 1, <<>>, uuids)

\* lines 373-375: folderInfo[folder.path] = folder, a later annotation of a path
\* replacing an earlier one
IndexFolders(folderDescriptionList) ==
    [p \in {folderDescriptionList[i].path : i \in 1..Len(folderDescriptionList)} |->
        folderDescriptionList[CHOOSE i \in 1..Len(folderDescriptionList) :
            /\ folderDescriptionList[i].path = p
            /\ \A j \in (i + 1)..Len(folderDescriptionList) : folderDescriptionList[j].path # p]]

\* lines 381-387: the package icon, read and rewritten when it is local
PackageIconData(packageIcon, uuids) ==
    IF TruthyIcon(packageIcon) /\ ~IsHttpUrl(packageIcon)
    THEN LET iconDataObject == getLocalIconData(packageIcon, uuids + 1)
         IN  [threw |-> iconDataObject.threw, distPackageIcon |-> iconDataObject.path,
              icons |-> IF iconDataObject.threw THEN <<>>
                        ELSE <<[path |-> iconDataObject.path, content |-> iconDataObject.content]>>,
              uuids |-> IF iconDataObject.threw THEN uuids ELSE uuids + 1]
    ELSE [threw |-> FALSE, distPackageIcon |-> packageIcon, icons |-> <<>>, uuids |-> uuids]

\* the documents put into a new object that takes the place of the collection
RECURSIVE WriteMetaFilesAfresh(_, _)
WriteMetaFilesAfresh(coll, metaInfos) ==
    IF metaInfos = <<>> THEN <<>>
    ELSE Assign(WriteMetaFilesAfresh(coll, SubSeq(metaInfos, 1, Len(metaInfos) - 1)),
                MetaKey(Last(metaInfos).path), MetaSource(Last(metaInfos).content))

\* lines 396-405: a document written at `${path}/meta.json`, in the order of the list
RECURSIVE WriteMetaFiles(_, _)
WriteMetaFiles(coll, metaInfos) ==
    IF metaInfos = <<>> THEN coll
    ELSE WriteMetaFiles(Assign(coll, MetaKey(Head(metaInfos).path),
                               MetaSource(Head(metaInfos).content)),
                        Tail(metaInfos))

\* lines 418-427: the icons written at their output paths
RECURSIVE WriteIconFiles(_, _)
WriteIconFiles(coll, icons) ==
    IF icons = <<>> THEN coll
    ELSE WriteIconFiles(Assign(coll, IconKey(Head(icons).path), Head(icons).content),
                        Tail(icons))

\* a README file that cannot be read passed over
CopyReadmeIfReadable(coll, readmeFile) ==
    IF readmeFile \notin ReadableFiles THEN [threw |-> FALSE, assets |-> coll]
    ELSE [threw |-> FALSE, assets |-> Assign(coll, ReadmeKey, Blob(readmeFile))]

\* lines 433-444: the README copied to '/README.md'; threw: the read failed
CopyReadme(coll, readmeFile) ==
    IF readmeFile = "" THEN [threw |-> FALSE, assets |-> coll]
    ELSE IF readmeFile \notin ReadableFiles THEN [threw |-> TRUE, assets |-> coll]
    ELSE [threw |-> FALSE, assets |-> Assign(coll, ReadmeKey, Blob(readmeFile))]

\* the emit callback as a whole (lines 358-447): the collection it leaves and
\* whether it reached callback()
EmitOutcome(coll, folderDescriptionList, packageIcon, readmeFile, environment, uuids) ==
    LET f == getFolderIconsInfo(folderDescriptionList, uuids)
        k == PackageIconData(packageIcon, f.uuids)
        t == generateDirectoryObject(coll, PackageDescription, k.distPackageIcon,
                                     IndexFolders(f.list), environment)
        m == generateMetaJson(t.tree, <<>>, PackageName)
        w == WriteIconFiles(WriteMetaFiles(coll, m), f.icons \o k.icons)
        r == CopyReadme(w, readmeFile)
    IN  IF f.threw \/ k.threw THEN [assets |-> coll, called |-> FALSE]
        ELSE IF t.threw THEN [assets |-> coll, called |-> FALSE]
        ELSE IF r.threw THEN [assets |-> w, called |-> FALSE]
        ELSE [assets |-> r.assets, called |-> TRUE]

(***************************************************************************)
(* State.                                                                  *)
(*   lines .. xpc            the annotation extractor run on one file      *)
(*   environment             this.environment                              *)
(*   assets                  compilation.assets                            *)
(*   folderInfo              folderInfo of the emit callback               *)
(*   directoryObject         the tree under construction                   *)
(*   idx                     the turn of the loop of generateDirectoryObject*)
(*   completeMetaJsonInfo    the documents generateMetaJson returned       *)
(*   pc                      the position of the run                       *)
(*   compiled                what the build put into compilation.assets    *)
(*   packageIcon, readmeFile, folderDescriptionList    fields of the plugin*)
(*   localIconInfo, distPackageIcon    locals of the emit callback         *)
(*   uuids                   the number of uuids drawn so far              *)
(*   callbacks               the number of calls of callback()             *)
(*   second                  the run is the second emit of a watching build*)
(*   prevMetaJsonInfo        the documents of the first emit               *)
(***************************************************************************)
VARIABLES lines, escaped, fileContent, description, xpc,
          environment,
          assets, folderInfo, directoryObject, idx, completeMetaJsonInfo, pc,
          compiled, packageIcon, readmeFile, folderDescriptionList,
          localIconInfo, distPackageIcon, uuids, callbacks, second, prevMetaJsonInfo

xvars == <<lines, escaped, fileContent, description, xpc>>
tvars == <<assets, folderInfo, directoryObject, idx, completeMetaJsonInfo, pc>>
cvars == <<compiled, packageIcon, readmeFile>>
evars == <<cvars, folderDescriptionList, localIconInfo, distPackageIcon, uuids,
           callbacks, second, prevMetaJsonInfo>>
vars == <<xvars, environment, tvars, evars>>

Environments == {"production", "development"}

XIdle ==
    /\ lines = <<>>
    /\ escaped = FALSE
    /\ fileContent = <<>>
    /\ description = <<>>
    /\ xpc = "idle"

TIdle ==
    /\ assets = <<>>
    /\ folderInfo = <<>>
    /\ directoryObject = <<>>
    /\ idx = 0
    /\ completeMetaJsonInfo = <<>>
    /\ pc = "idle"

EIdle ==
    /\ compiled = <<>>
    /\ packageIcon = UndefinedIcon
    /\ readmeFile = ""
    /\ folderDescriptionList = <<>>
    /\ localIconInfo = <<>>
    /\ distPackageIcon = UndefinedIcon
    /\ uuids = 0
    /\ callbacks = 0
    /\ second = FALSE
    /\ prevMetaJsonInfo = <<>>

(***************************************************************************)
(* Specification of the annotation extractor alone: a file of up to        *)
(* MaxLines lines is written with real or with escaped line breaks and     *)
(* scanned under either environment flag.                                  *)
(***************************************************************************)
LineChars == {DescMarker, BS, "n", "r", SP, "x"}

LinesOfLen(n) == [1..n -> LineChars]

\* lines hold neither a real line feed nor the escaped line-feed token
TextLines == {l \in UNION {LinesOfLen(n) : n \in 0..MaxLineLen} : ~Includes(l, EscapedLF)}

LineSeqs == UNION {[1..n -> TextLines] : n \in 1..MaxLines}

JoinReal(ls) == Join(ls, <<LF>>)
JoinEscaped(ls) == Join(ls, EscapedCR \o EscapedLF)

XInit ==
    /\ lines \in LineSeqs
    /\ escaped \in BOOLEAN
    /\ environment \in Environments
    /\ fileContent = <<>>
    /\ description = <<>>
    /\ xpc = "write"
    /\ TIdle
    /\ EIdle

\* the build writes the file: escaped line breaks or real ones
WriteFile ==
    /\ xpc = "write"
    /\ fileContent' = IF escaped THEN JoinEscaped(lines) ELSE JoinReal(lines)
    /\ xpc' = "scan"
    /\ UNCHANGED <<lines, escaped, environment, description, tvars, evars>>

ScanFile ==
    /\ xpc = "scan"
    /\ description' = getFileDescription(fileContent, environment)
    /\ xpc' = "done"
    /\ UNCHANGED <<lines, escaped, environment, fileContent, tvars, evars>>

XNext == WriteFile \/ ScanFile

SpecExtract == XInit /\ [][XNext]_vars

(***************************************************************************)
(* Specification of the tree builder and the document generator:           *)
(* generateDirectoryObject runs turn by turn over a collection of up to    *)
(* MaxAssets artifacts, then generateMetaJson runs on the tree.            *)
(***************************************************************************)
Plain == <<"x">>
Described == <<"x", SP, DescMarker, SP, "f", SP, LF, "x">>
DescribedEscaped == <<"x", SP, DescMarker, SP, "g", BS, "r", BS, "n", "x">>
IgnoredTop == <<"x", IgnoreMarker, LF, "x">>
IgnoredLater == <<"x", LF, "x", SP, IgnoreMarker>>

Artifact(dirs, file, text) == [key |-> Key(dirs, file), val |-> TextSource(text)]

ArtifactPool ==
    {Artifact(<<"", "a">>, <<"one", "js">>, t) : t \in {Plain, Described, IgnoredTop}}
    \cup {Artifact(<<"a">>, <<"one", "js">>, t) : t \in {Plain, IgnoredLater}}
    \cup {Artifact(<<"", "a", "b">>, <<"two", "js">>, t) : t \in {Plain, IgnoredLater}}
    \cup {Artifact(<<"">>, <<"one", "js">>, t) : t \in {Plain, DescribedEscaped}}
    \cup {Artifact(<<"", "b">>, <<"two", "js">>, t) : t \in {Plain, IgnoredTop}}
    \cup {Artifact(<<"", "b">>, <<"icon", "png">>, Plain),
          Artifact(<<"", "a">>, <<"cfg", "json", "js">>, Plain),
          Artifact(<<"", "constructor">>, <<"one", "js">>, Plain),
          Artifact(<<"", "constructor", "a">>, <<"two", "js">>, Plain),
          Artifact(<<"", "2">>, <<"one", "js">>, Plain),
          Artifact(<<"", "1">>, <<"two", "js">>, Plain)}

UniqueKeys(coll) == \A i, j \in 1..Len(coll) : coll[i].key = coll[j].key => i = j

Collections(pool, max) ==
    {c \in UNION {[1..n -> pool] : n \in 0..max} : UniqueKeys(c)}

DistIcon(base, token) == [kind |-> "dist", base |-> base, ext |-> "png", token |-> token]

Annotation(path, desc, iconPath, defaultAction) ==
    [path |-> path, description |-> desc, iconPath |-> iconPath,
     defaultAction |-> defaultAction, distIconPath |-> UndefinedIcon]

\* the index of two annotations: "/a", complete, its local icon rewritten, and
\* "/a/b", with a remote icon and nothing else
TreeFolderInfo ==
    (<<"", "a">> :> [Annotation(<<"", "a">>, <<"A">>, LocalIcon("fa"), <<"open">>)
                        EXCEPT !.distIconPath = DistIcon("fa", 1)])
    @@ (<<"", "a", "b">> :> Annotation(<<"", "a", "b">>, Undefined, RemoteIcon("rb"), Undefined))

TInit ==
    /\ XIdle
    /\ EIdle
    /\ environment \in Environments
    /\ assets \in Collections(ArtifactPool, MaxAssets)
    /\ folderInfo = TreeFolderInfo
    /\ directoryObject = (<<>> :> RootNode(PackageDescription, EmptyIcon))
    /\ idx = 1
    /\ completeMetaJsonInfo = <<>>
    /\ pc = "build"

\* one turn of the loop of generateDirectoryObject
VisitNext ==
    /\ pc = "build"
    /\ idx <= Len(assets)
    /\ LET v == VisitAsset(directoryObject, assets, idx, folderInfo, environment)
       IN  IF v.threw
           THEN pc' = "threw" /\ UNCHANGED <<directoryObject, idx>>
           ELSE directoryObject' = v.tree /\ idx' = idx + 1 /\ pc' = pc
    /\ UNCHANGED <<xvars, environment, assets, folderInfo, completeMetaJsonInfo, evars>>

\* the loop is over: generateMetaJson on the root
Generate ==
    /\ pc = "build"
    /\ idx > Len(assets)
    /\ completeMetaJsonInfo' = generateMetaJson(directoryObject, <<>>, PackageName)
    /\ pc' = "generated"
    /\ UNCHANGED <<xvars, environment, assets, folderInfo, directoryObject, idx, evars>>

TNext == VisitNext \/ Generate

SpecTree == TInit /\ [][TNext]_vars

(***************************************************************************)
(* Specification of the plugin: the emit callback runs on a compilation,   *)
(* step by step, and once more on the next compilation of the same         *)
(* artifacts (a watching build), the plugin object being the same.  The    *)
(* environment flag is the default one; the artifacts are plain scripts.   *)
(***************************************************************************)
EmitPool ==
    {Artifact(<<"", "a">>, <<"one", "js">>, Plain),
     Artifact(<<"", "">>, <<"meta", "json">>, Plain),
     Artifact(<<"">>, <<"README", "md">>, Plain)}

AnnotationPool ==
    {Annotation(<<"", "a">>, <<"A">>, LocalIcon("fa"), <<"open">>),
     Annotation(<<"", "a">>, Undefined, RemoteIcon("ra"), Undefined),
     Annotation(<<"", "zz">>, <<"Z">>, LocalIcon("fz"), Undefined),
     Annotation(<<"", "zz">>, <<"Z">>, RemoteIcon("rz"), <<"open">>),
     Annotation(<<"", "zz">>, Undefined, LocalIcon("gone"), Undefined),
     Annotation(<<"a">>, <<"B">>, UndefinedIcon, <<>>)}

AnnotationLists ==
    {l \in UNION {[1..n -> AnnotationPool] : n \in 0..MaxAnnotations} :
        \A i, j \in 1..Len(l) : l[i] = l[j] => i = j}

PackageIcons == {UndefinedIcon, RemoteIcon("rp"), LocalIcon("lp"), LocalIcon("gone")}

ReadmeFiles == {"", "README.md", "nope.md"}

Init ==
    /\ XIdle
    /\ environment = "production"
    /\ compiled \in Collections(EmitPool, MaxEmitAssets)
    /\ assets = compiled
    /\ packageIcon \in PackageIcons
    /\ readmeFile \in ReadmeFiles
    /\ folderDescriptionList \in AnnotationLists
    /\ folderInfo = <<>>
    /\ directoryObject = <<>>
    /\ idx = 0
    /\ completeMetaJsonInfo = <<>>
    /\ localIconInfo = <<>>
    /\ distPackageIcon = UndefinedIcon
    /\ uuids = 0
    /\ callbacks = 0
    /\ second = FALSE
    /\ prevMetaJsonInfo = <<>>
    /\ pc = "emit"

\* lines 362-376: the folder icons read, the annotations indexed by path
GetFolderIcons ==
    /\ pc = "emit"
    /\ LET f == getFolderIconsInfo(folderDescriptionList, uuids)
       IN  /\ folderDescriptionList' = f.list
           /\ uuids' = f.uuids
           /\ IF f.threw
              THEN pc' = "failed" /\ UNCHANGED <<localIconInfo, folderInfo>>
              ELSE /\ localIconInfo' = f.icons
                   /\ folderInfo' = IndexFolders(f.list)
                   /\ pc' = "icon"
    /\ distPackageIcon' = packageIcon
    /\ UNCHANGED <<xvars, environment, assets, directoryObject, idx, completeMetaJsonInfo,
                   cvars, callbacks, second, prevMetaJsonInfo>>

\* lines 381-387
GetPackageIcon ==
    /\ pc = "icon"
    /\ LET k == PackageIconData(packageIcon, uuids)
       IN  /\ uuids' = k.uuids
           /\ IF k.threw
              THEN pc' = "failed" /\ UNCHANGED <<distPackageIcon, localIconInfo>>
              ELSE /\ distPackageIcon' = k.distPackageIcon
                   /\ localIconInfo' = localIconInfo \o k.icons
                   /\ pc' = "tree"
    /\ UNCHANGED <<xvars, environment, assets, folderInfo, directoryObject, idx,
                   completeMetaJsonInfo, cvars, folderDescriptionList, callbacks, second,
                   prevMetaJsonInfo>>

\* lines 389-390
BuildTree ==
    /\ pc = "tree"
    /\ LET t == generateDirectoryObject(assets, PackageDescription, distPackageIcon,
                                        folderInfo, environment)
       IN  IF t.threw
           THEN pc' = "failed" /\ UNCHANGED directoryObject
           ELSE directoryObject' = t.tree /\ pc' = "meta"
    /\ UNCHANGED <<xvars, environment, assets, folderInfo, idx, completeMetaJsonInfo, evars>>

\* line 393
GenerateDocuments ==
    /\ pc = "meta"
    /\ completeMetaJsonInfo' = generateMetaJson(directoryObject, <<>>, PackageName)
    /\ pc' = "write"
    /\ UNCHANGED <<xvars, environment, assets, folderInfo, directoryObject, idx, evars>>

\* lines 396-405
WriteMeta ==
    /\ pc = "write"
    /\ assets' = WriteMetaFiles(assets, completeMetaJsonInfo)
    /\ pc' = "icons"
    /\ UNCHANGED <<xvars, environment, folderInfo, directoryObject, idx, completeMetaJsonInfo, evars>>

\* lines 411-427 (the removal of dist/icons on disk is no part of the state)
WriteIcons ==
    /\ pc = "icons"
    /\ assets' = WriteIconFiles(assets, localIconInfo)
    /\ pc' = "readme"
    /\ UNCHANGED <<xvars, environment, folderInfo, directoryObject, idx, completeMetaJsonInfo, evars>>

\* lines 433-444
WriteReadme ==
    /\ pc = "readme"
    /\ LET r == CopyReadme(assets, readmeFile)
       IN  IF r.threw
           THEN pc' = "failed" /\ UNCHANGED assets
           ELSE assets' = r.assets /\ pc' = "callback"
    /\ UNCHANGED <<xvars, environment, folderInfo, directoryObject, idx, completeMetaJsonInfo, evars>>

\* line 446
Callback ==
    /\ pc = "callback"
    /\ callbacks' = callbacks + 1
    /\ pc' = "done"
    /\ UNCHANGED <<xvars, environment, assets, folderInfo, directoryObject, idx, completeMetaJsonInfo, cvars, folderDescriptionList, localIconInfo,
                   distPackageIcon, uuids, second, prevMetaJsonInfo>>

\* the next compilation of a watching build: the same artifacts in a new
\* collection, the emit hook fired again on the same plugin object
NextCompilation ==
    /\ pc = "done"
    /\ ~second
    /\ second' = TRUE
    /\ prevMetaJsonInfo' = completeMetaJsonInfo
    /\ assets' = compiled
    /\ folderInfo' = <<>>
    /\ directoryObject' = <<>>
    /\ completeMetaJsonInfo' = <<>>
    /\ localIconInfo' = <<>>
    /\ distPackageIcon' = UndefinedIcon
    /\ callbacks' = 0
    /\ pc' = "emit"
    /\ UNCHANGED <<xvars, environment, idx, cvars, folderDescriptionList, uuids>>

Next ==
    \/ GetFolderIcons
    \/ GetPackageIcon
    \/ BuildTree
    \/ GenerateDocuments
    \/ WriteMeta
    \/ WriteIcons
    \/ WriteReadme
    \/ Callback
    \/ NextCompilation

Spec == Init /\ [][Next]_vars

(***************************************************************************)
(* Notions the properties of the tree and of the documents are stated      *)
(* with.                                                                   *)
(***************************************************************************)
\* the directory of a path: its segments before the file name, a single
\* leading slash dropped
DirOf(key) ==
    IF key.dirs # <<>> /\ key.dirs[1] = "" THEN SubSeq(key.dirs, 2, Len(key.dirs)) ELSE key.dirs

IsPrefix(s, t) == Len(s) <= Len(t) /\ SubSeq(t, 1, Len(s)) = s

\* d and every directory above it, the root included
DirsUpTo(d) == {SubSeq(d, 1, n) : n \in 0..Len(d)}

HasIgnoreMarker(text) == \E k \in 1..Len(text) : text[k] = IgnoreMarker

RejectedArtifact(a) ==
    \/ (Len(a.key.file) >= 2 /\ a.key.file[Len(a.key.file)] \in InvalidExt)
    \/ HasIgnoreMarker(a.val.text)

\* a directory no node can stand for: one of its segments names an inherited property
Shadowed(d) == \E k \in 1..Len(d) : d[k] \in InheritedNames

DocPaths == {completeMetaJsonInfo[k].path : k \in 1..Len(completeMetaJsonInfo)}

DocsAt(d) == {k \in 1..Len(completeMetaJsonInfo) : completeMetaJsonInfo[k].path = d}

\* the records of a scripts text
Records(scripts) == SelectSeq(scripts, LAMBDA t : t.type \in {"action", "folder"})

\* the directories implied by the paths of all the artifacts, the root included
AllImpliedDirs == UNION {DirsUpTo(DirOf(assets[i].key)) : i \in 1..Len(assets)} \cup {<<>>}

\* the directories implied by the paths of the artifacts that are not rejected,
\* the root included, those no node can stand for left out
AcceptedImpliedDirs ==
    {d \in UNION {DirsUpTo(DirOf(assets[i].key)) :
                    i \in {j \in 1..Len(assets) : ~RejectedArtifact(assets[j])}} :
        ~Shadowed(d)} \cup {<<>>}

\* the action records of file name file in document k
ActionRecordsOf(k, file) ==
    Len(SelectSeq(completeMetaJsonInfo[k].content.scripts,
                  LAMBDA t : t.type = "action" /\ t.file = file))

\* the folder records of folder name in document k
FolderRecordsOf(k, name) ==
    Len(SelectSeq(completeMetaJsonInfo[k].content.scripts,
                  LAMBDA t : t.type = "folder" /\ t.file = <<name>>))

\* the accepted artifacts of file name file in directory d
AcceptedTwins(d, file) ==
    {j \in 1..Len(assets) :
        /\ ~RejectedArtifact(assets[j])
        /\ DirOf(assets[j].key) = d
        /\ assets[j].key.file = file}

\* artifact i carries the ignore marker and is alone in and below its directory
IgnoredAlone(i) ==
    /\ HasIgnoreMarker(assets[i].val.text)
    /\ \A j \in 1..Len(assets) :
        j # i => ~IsPrefix(DirOf(assets[i].key), DirOf(assets[j].key))

\* what the annotation of the accumulated path of node p gives the node
AnnotatedFields(p) ==
    LET joined == <<"">> \o p
    IN  IF joined \in DOMAIN folderInfo
        THEN [description |-> folderInfo[joined].description,
              defaultAction |-> IF folderInfo[joined].defaultAction = Undefined THEN <<>>
                                ELSE folderInfo[joined].defaultAction,
              icon |-> folderInfo[joined].distIconPath]
        ELSE [description |-> <<>>, defaultAction |-> <<>>, icon |-> EmptyIcon]

FieldsOf(node) ==
    [description |-> node.description, defaultAction |-> node.defaultAction, icon |-> node.icon]

\* a step leaves every node its fields, files and children, but for what it
\* appends, and gives a node it makes the fields of its annotation
FirstCreationWins ==
    /\ \A p \in DOMAIN directoryObject :
        /\ p \in DOMAIN directoryObject'
        /\ FieldsOf(directoryObject'[p]) = FieldsOf(directoryObject[p])
        /\ directoryObject'[p].parentPath = directoryObject[p].parentPath
        /\ IsPrefix(directoryObject[p].files, directoryObject'[p].files)
        /\ IsPrefix(directoryObject[p].folders, directoryObject'[p].folders)
    /\ \A p \in DOMAIN directoryObject' \ DOMAIN directoryObject :
        FieldsOf(directoryObject'[p]) = AnnotatedFields(p)

(***************************************************************************)
(* C1, as stated: the number of documents generated equals the number of   *)
(* distinct directories implied by the paths of ALL the artifacts, the     *)
(* root included, each counted once (the directories that hold only        *)
(* rejected artifacts included).                                           *)
(***************************************************************************)
C1_AsStated ==
    pc = "generated" => Len(completeMetaJsonInfo) = Cardinality(AllImpliedDirs)

(***************************************************************************)
(* C1, as amended: the documents stand, one each, for the directories      *)
(* implied by the paths of the artifacts that are not rejected (the root   *)
(* included), but for a directory at or below a segment that names an      *)
(* inherited object property, for which no node is made.                   *)
(***************************************************************************)
C1_DocumentPerAcceptedDirectory ==
    pc = "generated" =>
        /\ Len(completeMetaJsonInfo) = Cardinality(AcceptedImpliedDirs)
        /\ DocPaths = AcceptedImpliedDirs

\* C1: three documents are generated though a directory holds rejected artifacts
\* only, one path being written without the leading slash
C1_Witness ==
    /\ pc = "generated"
    /\ Len(completeMetaJsonInfo) = 3
    /\ Cardinality(AllImpliedDirs) > Cardinality(AcceptedImpliedDirs)
    /\ \E i \in 1..Len(assets) : assets[i].key.dirs = <<"a">>

(***************************************************************************)
(* C2: an artifact whose content holds the ignore marker on any line       *)
(* has no action record in any document, under either environment flag:    *)
(* a document holds no more action records of its file name than there are *)
(* other, accepted artifacts of that name in the document's directory.     *)
(***************************************************************************)
C2_IgnoredNeverListed ==
    pc = "generated" =>
        \A i \in 1..Len(assets) :
            HasIgnoreMarker(assets[i].val.text) =>
                \A k \in 1..Len(completeMetaJsonInfo) :
                    ActionRecordsOf(k, assets[i].key.file)
                        <= Cardinality(AcceptedTwins(completeMetaJsonInfo[k].path, assets[i].key.file))

\* C2: under the development flag a file with the marker on a later line is left
\* out of the document of its directory, which lists something else
C2_Witness ==
    /\ pc = "generated"
    /\ environment = "development"
    /\ \E i \in 1..Len(assets) :
        /\ HasIgnoreMarker(assets[i].val.text)
        /\ assets[i].val.text[1] # IgnoreMarker
        /\ \E k \in DocsAt(DirOf(assets[i].key)) :
            /\ ActionRecordsOf(k, assets[i].key.file) = 0
            /\ Len(Records(completeMetaJsonInfo[k].content.scripts)) > 0

(***************************************************************************)
(* C3, as stated: when the only artifact inside a directory carries the    *)
(* ignore marker, and the directory has no other files or subfolders, a    *)
(* document of that directory is still generated, with an empty scripts    *)
(* catalog.                                                                *)
(***************************************************************************)
C3_AsStated ==
    pc = "generated" =>
        \A i \in 1..Len(assets) :
            IgnoredAlone(i) =>
                \E k \in DocsAt(DirOf(assets[i].key)) :
                    Records(completeMetaJsonInfo[k].content.scripts) = <<>>

(***************************************************************************)
(* C3, as amended: such a directory, when it is not the root, gets no      *)
(* document, and no document lists it as a folder: the artifact is         *)
(* rejected before any folder of its path is made.                         *)
(***************************************************************************)
C3_NoDocumentForIgnoredOnlyDirectory ==
    pc = "generated" =>
        \A i \in 1..Len(assets) :
            (IgnoredAlone(i) /\ DirOf(assets[i].key) # <<>>) =>
                LET d == DirOf(assets[i].key)
                IN  /\ DocsAt(d) = {}
                    /\ \A k \in DocsAt(SubSeq(d, 1, Len(d) - 1)) : FolderRecordsOf(k, d[Len(d)]) = 0

\* C3: the ignored artifact is alone in /a/b, while /a holds an accepted one
C3_Witness ==
    /\ pc = "generated"
    /\ \E i \in 1..Len(assets) :
        /\ IgnoredAlone(i)
        /\ DirOf(assets[i].key) = <<"a", "b">>
        /\ DocsAt(<<"a">>) # {}

(***************************************************************************)
(* C10: first creation wins.  A turn of the tree builder gives a node it   *)
(* makes the description, icon and defaultAction of the folder annotation  *)
(* whose path is the node's accumulated path (the icon as rewritten for    *)
(* the output; all three empty when there is no annotation), and leaves    *)
(* every node that exists its three fields, the files it holds (a new one  *)
(* is appended) and the children it has (a new one is appended).           *)
(***************************************************************************)
C10_FirstCreationWins == [][FirstCreationWins]_vars

\* C10: an annotated node made by one artifact has been reached again by later ones
C10_Witness ==
    /\ pc = "build"
    /\ <<"a">> \in DOMAIN directoryObject
    /\ Len(directoryObject[<<"a">>].files) = 2
    /\ Len(directoryObject[<<"a">>].folders) = 1
    /\ directoryObject[<<"a">>].description = <<"A">>

(***************************************************************************)
(* Notions the properties of the extractor are stated with.                *)
(***************************************************************************)
FirstMarker(line) == CHOOSE k \in 1..Len(line) :
    line[k] = DescMarker /\ \A m \in 1..(k - 1) : line[m] # DescMarker

AfterFirstMarker(line) == SubSeq(line, FirstMarker(line) + 1, Len(line))

\* the trimmed text after the first marker of the first line that holds one
StatedDescription(content) ==
    LET marked == SelectSeq(Split(content, <<LF>>),
                            LAMBDA l : \E k \in 1..Len(l) : l[k] = DescMarker)
    IN  IF marked = <<>> THEN <<>> ELSE Trim(AfterFirstMarker(marked[1]))

(***************************************************************************)
(* C5: getFileDescription returns the trimmed text that follows the first  *)
(* occurrence of the description marker on the first line that holds the   *)
(* marker, and the empty text when no line holds it (stated here of the    *)
(* files written with real line breaks, under either flag).                *)
(***************************************************************************)
C5_AsStated ==
    (xpc = "done" /\ ~escaped) => description = StatedDescription(fileContent)

(***************************************************************************)
(* C6: for every sequence of lines, the development flag on the lines      *)
(* joined by the escaped carriage-return and line-feed tokens gives the    *)
(* description the production flag gives on the same lines joined by real  *)
(* line feeds.                                                             *)
(***************************************************************************)
C6_AsStated ==
    (xpc = "done" /\ escaped /\ environment = "development") =>
        description = getFileDescription(JoinReal(lines), "production")

\* the same, of the lines that hold no escaped carriage return of their own
C6_WithoutInnerEscapedCR ==
    (xpc = "done" /\ escaped /\ environment = "development"
        /\ \A k \in 1..Len(lines) : ~Includes(lines[k], EscapedCR)) =>
        description = getFileDescription(JoinReal(lines), "production")

(***************************************************************************)
(* Notions the properties of the emit callback are stated with.            *)
(***************************************************************************)
\* the emit is over: callback() was called, or a step threw
Ended == pc \in {"done", "failed"}

\* the documents of this emit exist
Generated == pc \in {"write", "icons", "readme", "callback", "done"}

\* the directories the tree builder makes nodes for, the root apart
CreatedDirs ==
    {d \in UNION {DirsUpTo(DirOf(compiled[i].key)) :
                    i \in {j \in 1..Len(compiled) : ~RejectedArtifact(compiled[j])}} :
        ~Shadowed(d) /\ d # <<>>}

\* annotation k has the accumulated path of no directory made
Unmatched(k) == \A d \in CreatedDirs : folderDescriptionList[k].path # <<"">> \o d

IsLocalIconPath(icon) == icon.kind \notin {"empty", "undefined", "remote"}

\* annotation k is the one the index keeps for its path
Indexed(k) ==
    \A j \in (k + 1)..Len(folderDescriptionList) :
        folderDescriptionList[j].path # folderDescriptionList[k].path

\* the list as configured, and without annotation k
Configured(list) == [i \in 1..Len(list) |-> [list[i] EXCEPT !.distIconPath = UndefinedIcon]]

Without(list, k) == SubSeq(list, 1, k - 1) \o SubSeq(list, k + 1, Len(list))

\* uuid tokens blanked
MaskIcon(icon) == [icon EXCEPT !.token = 0]

MaskContent(content) ==
    [content EXCEPT !.icon = [n \in DOMAIN content.icon |-> MaskIcon(content.icon[n])]]

MaskDocuments(docs) ==
    [n \in 1..Len(docs) |-> [path |-> docs[n].path, content |-> MaskContent(docs[n].content)]]

MaskCollection(coll) ==
    [n \in 1..Len(coll) |->
        [key |-> [coll[n].key EXCEPT !.token = 0],
         val |-> IF coll[n].val.kind = "meta"
                 THEN MetaSource(MaskContent(coll[n].val.content)) ELSE coll[n].val]]

\* what the first emit would leave without annotation k
OutcomeWithout(k) ==
    EmitOutcome(compiled, Without(Configured(folderDescriptionList), k),
                packageIcon, readmeFile, environment, 0)

\* entry n of the compilation is in the collection as it was
Kept(n) == \E m \in 1..Len(assets) : assets[m] = compiled[n]

\* the keys the emit writes documents and the README at
OutputKeys ==
    {MetaKey(completeMetaJsonInfo[n].path) : n \in 1..Len(completeMetaJsonInfo)}
    \cup (IF readmeFile # "" THEN {ReadmeKey} ELSE {})

\* the steps of the emit leave what the emit as a whole leaves
EmitStepsAgreeWithWhole ==
    (Ended /\ ~second) =>
        LET o == EmitOutcome(compiled, Configured(folderDescriptionList), packageIcon,
                             readmeFile, environment, 0)
        IN  assets = o.assets /\ (pc = "done") = o.called

(***************************************************************************)
(* C4, as stated: a folder annotation whose path is the accumulated path   *)
(* of no directory made from the artifacts has no effect on the output:    *)
(* the collection after the emit is the same, uuid tokens apart, with and  *)
(* without it, also when it carries a local iconPath.                      *)
(***************************************************************************)
C4_AsStated ==
    (Ended /\ ~second) =>
        \A k \in 1..Len(folderDescriptionList) :
            Unmatched(k) =>
                /\ MaskCollection(assets) = MaskCollection(OutcomeWithout(k).assets)
                /\ (pc = "done") = OutcomeWithout(k).called

(***************************************************************************)
(* C4, as amended: such an annotation has no effect when it carries no     *)
(* local iconPath (none, or a remote one): the collection after the emit   *)
(* and its completion are the same with and without it.  (One with a local *)
(* iconPath has its icon read and written to the output.)                  *)
(***************************************************************************)
C4_UnmatchedWithoutLocalIconHasNoEffect ==
    (Ended /\ ~second) =>
        \A k \in 1..Len(folderDescriptionList) :
            (Unmatched(k) /\ ~IsLocalIconPath(folderDescriptionList[k].iconPath)) =>
                /\ assets = OutcomeWithout(k).assets
                /\ (pc = "done") = OutcomeWithout(k).called

\* C4: an emit that completed with an unmatched annotation ("a", no slash before
\* it) behind a matched one
C4_Witness ==
    /\ pc = "done"
    /\ ~second
    /\ Len(folderDescriptionList) = 2
    /\ ~Unmatched(1)
    /\ Unmatched(2)
    /\ folderDescriptionList[2].path = <<"a">>
    /\ CreatedDirs # {}

(***************************************************************************)
(* C7: a remote icon reference, given as the package icon or as the        *)
(* iconPath of a folder annotation, passes through unchanged: the document *)
(* of the package root, respectively of the annotated directory, carries   *)
(* that reference as its icon.                                             *)
(***************************************************************************)
C7_AsStated ==
    Generated =>
        /\ IsHttpUrl(packageIcon) =>
            \A n \in DocsAt(<<>>) : completeMetaJsonInfo[n].content.icon = <<packageIcon>>
        /\ \A k \in 1..Len(folderDescriptionList) :
            (IsHttpUrl(folderDescriptionList[k].iconPath) /\ Indexed(k)) =>
                \A n \in 1..Len(completeMetaJsonInfo) :
                    <<"">> \o completeMetaJsonInfo[n].path = folderDescriptionList[k].path =>
                        completeMetaJsonInfo[n].content.icon = <<folderDescriptionList[k].iconPath>>

\* the half of it that holds: the remote package icon is the icon of the root
C7_RemotePackageIconPassesThrough ==
    (Generated /\ IsHttpUrl(packageIcon)) =>
        /\ DocsAt(<<>>) # {}
        /\ \A n \in DocsAt(<<>>) : completeMetaJsonInfo[n].content.icon = <<packageIcon>>

(***************************************************************************)
(* C8, as stated: a run of the emit callback only adds entries: every      *)
(* entry the collection held before the run is there after it, under the   *)
(* same key with the same content.                                         *)
(***************************************************************************)
C8_AsStated == \A n \in 1..Len(compiled) : Kept(n)

(***************************************************************************)
(* C8, as amended: no key is ever removed, and every entry the collection  *)
(* held before the run keeps its content but an entry at the output key    *)
(* of a generated document (<directory path>/meta.json) or, when a README  *)
(* file is configured, at /README.md: that one is replaced.                *)
(***************************************************************************)
C8_OnlyOutputKeysReplaced ==
    /\ \A n \in 1..Len(compiled) : compiled[n].key \in Keys(assets)
    /\ \A n \in 1..Len(compiled) : compiled[n].key \notin OutputKeys => Kept(n)
    /\ Len(assets) >= Len(compiled)

\* C8: the emit is over, having added entries, kept /a/one.js and replaced the
\* meta.json of the root
C8_Witness ==
    /\ pc = "done"
    /\ Len(compiled) = 2
    /\ Len(assets) > 3
    /\ \E n \in 1..Len(compiled) : compiled[n].key = Key(<<"", "a">>, <<"one", "js">>) /\ Kept(n)
    /\ \E n \in 1..Len(compiled) : compiled[n].key = MetaKey(<<>>) /\ ~Kept(n)

(***************************************************************************)
(* C9: two runs of generation on the same artifacts and the same           *)
(* configuration give the same ordered list of documents, but for the      *)
(* uuid tokens inside icon output paths: the second emit does not fail,    *)
(* and its documents are those of the first once the tokens are blanked.   *)
(***************************************************************************)
C9_SameDocumentsButTokens ==
    second =>
        /\ pc # "failed"
        /\ Generated => MaskDocuments(completeMetaJsonInfo) = MaskDocuments(prevMetaJsonInfo)

\* C9: the second run has generated documents that differ from those of the
\* first, by the token of a folder icon
C9_Witness ==
    /\ second
    /\ pc = "done"
    /\ Len(completeMetaJsonInfo) = 2
    /\ completeMetaJsonInfo # prevMetaJsonInfo
    /\ \E k \in 1..Len(folderDescriptionList) :
        folderDescriptionList[k].distIconPath.kind = "dist"

(***************************************************************************)
(* Notions the properties of the order of the documents are stated with.   *)
(***************************************************************************)
\* the place of the document of directory d in the list
DocIndex(d) == CHOOSE k \in DocsAt(d) : TRUE

\* the place of a child in the order of creation
CreatedAt(folders, name) == CHOOSE i \in 1..Len(folders) : folders[i] = name

\* the document of a directory is before those of the directories below it
ParentBeforeDescendants ==
    \A j, k \in 1..Len(completeMetaJsonInfo) :
        (completeMetaJsonInfo[j].path # completeMetaJsonInfo[k].path
            /\ IsPrefix(completeMetaJsonInfo[j].path, completeMetaJsonInfo[k].path)) => j < k

\* the documents of a directory and of all below it are next to one another
SubtreesContiguous ==
    \A d \in DocPaths :
        \A j, k \in 1..Len(completeMetaJsonInfo) :
            (j < k /\ IsPrefix(d, completeMetaJsonInfo[j].path)
                   /\ IsPrefix(d, completeMetaJsonInfo[k].path)) =>
                \A m \in j..k : IsPrefix(d, completeMetaJsonInfo[m].path)

\* a child made later has its documents earlier
ChildrenInReverseOfCreation ==
    \A p \in DOMAIN directoryObject :
        \A x, y \in Range(directoryObject[p].folders) :
            CreatedAt(directoryObject[p].folders, x) > CreatedAt(directoryObject[p].folders, y) =>
                DocIndex(Append(p, x)) < DocIndex(Append(p, y))

\* child x is visited before child y: both have names that are no array
\* indices and x was made later, or y alone has an array index for its name, or
\* both have and that of x is the greater
VisitedBefore(folders, x, y) ==
    IF IsArrayIndex(x)
    THEN IsArrayIndex(y) /\ ArrayIndex[x] > ArrayIndex[y]
    ELSE IsArrayIndex(y) \/ CreatedAt(folders, x) > CreatedAt(folders, y)

ChildrenInReverseOfKeys ==
    \A p \in DOMAIN directoryObject :
        \A x, y \in Range(directoryObject[p].folders) :
            VisitedBefore(directoryObject[p].folders, x, y) =>
                DocIndex(Append(p, x)) < DocIndex(Append(p, y))

(***************************************************************************)
(* C11, as stated: generateMetaJson emits the documents in pre-order: the  *)
(* document of every directory precedes those of all its descendants, the  *)
(* documents of one child's whole subtree are contiguous, and the children *)
(* of a directory are visited in the reverse of the order in which they    *)
(* were first created.                                                     *)
(***************************************************************************)
C11_AsStated ==
    pc = "generated" =>
        /\ ParentBeforeDescendants
        /\ SubtreesContiguous
        /\ ChildrenInReverseOfCreation

(***************************************************************************)
(* C11, as amended: the documents are in pre-order, the subtrees           *)
(* contiguous, and the children of a directory are visited in the reverse  *)
(* of the order of the keys of its folders object: the children whose      *)
(* names are no array indices first, in the reverse of the order of their  *)
(* creation, then those whose names are array indices ("1", "2"), the      *)
(* greatest first.                                                         *)
(***************************************************************************)
C11_PreOrderInReverseOfKeys ==
    pc = "generated" =>
        /\ ParentBeforeDescendants
        /\ SubtreesContiguous
        /\ ChildrenInReverseOfKeys

\* C11: four documents, of the root, of a and of b below it, then of 1, which
\* was made after a
C11_Witness ==
    /\ pc = "generated"
    /\ directoryObject[<<>>].folders = <<"a", "1">>
    /\ Len(completeMetaJsonInfo) = 4
    /\ completeMetaJsonInfo[3].path = <<"a", "b">>
    /\ completeMetaJsonInfo[4].path = <<"1">>

(***************************************************************************)
(* Notions the properties of the scripts catalog are stated with.          *)
(***************************************************************************)
\* the File Entries of a node whose file names do not hold .json
ListedFiles(node) == SelectSeq(node.files, LAMBDA f : ~IncludesDotJson(f.fileName))

\* the records of document k are those of the files and the children of node p
CatalogOf(k, p) ==
    LET recs == Records(completeMetaJsonInfo[k].content.scripts)
        listed == ListedFiles(directoryObject[p])
        children == directoryObject[p].folders
    IN  /\ Len(recs) = Len(listed) + Len(children)
        /\ \A i \in 1..Len(recs) : DOMAIN recs[i] = {"name", "file", "type", "description"}
        /\ \A i \in 1..Len(listed) :
            /\ recs[i].type = "action"
            /\ recs[i].file = listed[i].fileName
            /\ recs[i].description = listed[i].description
        /\ \A i \in (Len(listed) + 1)..Len(recs) :
            /\ recs[i].type = "folder"
            /\ \E c \in Range(children) :
                /\ recs[i].name = <<c>>
                /\ recs[i].file = <<c>>
                /\ recs[i].description = directoryObject[Append(p, c)].description
        /\ \A c \in Range(children) : FolderRecordsOf(k, c) = 1

(***************************************************************************)
(* C12: the scripts catalog of a directory's document holds one action     *)
(* record per File Entry of the directory whose file name does not hold    *)
(* the substring .json, in the order the entries were appended, followed   *)
(* by exactly one folder record per direct child directory; a folder       *)
(* record carries the child's name and description and nothing else of the *)
(* child, and no record of a directory further down or of its files        *)
(* appears.                                                                *)
(***************************************************************************)
C12_FilesThenFolders ==
    pc = "generated" =>
        \A k \in 1..Len(completeMetaJsonInfo) :
            /\ completeMetaJsonInfo[k].path \in DOMAIN directoryObject
            /\ CatalogOf(k, completeMetaJsonInfo[k].path)

\* C12: the document of /a lists one of its two files (the other is
\* cfg.json.js) and then its child b, which holds a file of its own; /a has an
\* icon and a default action, and the root lists it by name and description
C12_Witness ==
    /\ pc = "generated"
    /\ <<"a", "b">> \in DOMAIN directoryObject
    /\ Len(directoryObject[<<"a">>].files) = 2
    /\ Len(directoryObject[<<"a", "b">>].files) = 1
    /\ directoryObject[<<"a">>].icon.kind = "dist"
    /\ directoryObject[<<"a">>].defaultAction = <<"open">>
    /\ \E k \in DocsAt(<<"a">>) :
        /\ Len(Records(completeMetaJsonInfo[k].content.scripts)) = 2
        /\ ActionRecordsOf(k, <<"cfg", "json", "js">>) = 0
    /\ \E k \in DocsAt(<<>>) : FolderRecordsOf(k, "a") = 1

(***************************************************************************)
(* Notions the properties of the completion signal are stated with.        *)
(***************************************************************************)
\* a local file the configuration refers to cannot be read
UnreadableIcon(icon) == IsLocalIconPath(icon) /\ icon.base \notin ReadableFiles

UnreadableReferenced ==
    \/ UnreadableIcon(packageIcon)
    \/ \E k \in 1..Len(folderDescriptionList) : UnreadableIcon(folderDescriptionList[k].iconPath)
    \/ (readmeFile # "" /\ readmeFile \notin ReadableFiles)

\* the collection holds val under key
Holds(key, val) == \E n \in 1..Len(assets) : assets[n].key = key /\ assets[n].val = val

\* the last document of a path is in the collection, and so is every icon read
\* and the README file configured
AllOutputAdded ==
    /\ \A k \in 1..Len(completeMetaJsonInfo) :
        (\A j \in (k + 1)..Len(completeMetaJsonInfo) :
            completeMetaJsonInfo[j].path # completeMetaJsonInfo[k].path) =>
            Holds(MetaKey(completeMetaJsonInfo[k].path), MetaSource(completeMetaJsonInfo[k].content))
    /\ \A k \in 1..Len(localIconInfo) :
        Holds(IconKey(localIconInfo[k].path), localIconInfo[k].content)
    /\ \A k \in 1..Len(folderDescriptionList) :
        IsLocalIconPath(folderDescriptionList[k].iconPath) =>
            \E n \in 1..Len(localIconInfo) :
                localIconInfo[n].content = Blob(folderDescriptionList[k].iconPath.base)
    /\ IsLocalIconPath(packageIcon) =>
        \E n \in 1..Len(localIconInfo) : localIconInfo[n].content = Blob(packageIcon.base)
    /\ readmeFile # "" => Holds(ReadmeKey, Blob(readmeFile))

\* a run that has neither completed nor aborted can take a step
EmitCanStep ==
    ~Ended => ENABLED (GetFolderIcons \/ GetPackageIcon \/ BuildTree \/ GenerateDocuments
                       \/ WriteMeta \/ WriteIcons \/ WriteReadme \/ Callback)

(***************************************************************************)
(* C13: in every run of the emit callback the completion signal is given   *)
(* at most once; it is given exactly once, after all the documents, the    *)
(* icon entries and the README entry have been added, when no step fails   *)
(* (a run is aborted only for a file it cannot read); and it is never      *)
(* given when a local icon or README file referred to cannot be read: the  *)
(* run is aborted.                                                         *)
(***************************************************************************)
C13_CompletionOnceAtTheEnd ==
    /\ callbacks <= 1
    /\ (callbacks = 1) <=> (pc = "done")
    /\ pc \in {"callback", "done"} => AllOutputAdded
    /\ pc = "failed" => UnreadableReferenced
    /\ UnreadableReferenced => (callbacks = 0 /\ pc # "callback")

\* C13: a second run completed with a document, a folder icon, the package icon
\* and the README file written
C13_Witness ==
    /\ pc = "done"
    /\ second
    /\ callbacks = 1
    /\ Len(localIconInfo) = 2
    /\ readmeFile = "README.md"
    /\ Len(completeMetaJsonInfo) = 2

\* C13: a run aborted at the README file, the documents and icons written
C13_AbortWitness ==
    /\ pc = "failed"
    /\ callbacks = 0
    /\ readmeFile = "nope.md"
    /\ \E n \in 1..Len(assets) : assets[n].val.kind = "meta"

(***************************************************************************)
(* Notions the properties of the File Entries are stated with.             *)
(***************************************************************************)
Accepted == {i \in 1..Len(assets) : ~RejectedArtifact(assets[i])}

RECURSIVE FileEntriesIn(_)
FileEntriesIn(nodes) ==
    IF nodes = {} THEN 0
    ELSE LET p == CHOOSE q \in nodes : TRUE
         IN  Len(directoryObject[p].files) + FileEntriesIn(nodes \ {p})

\* the File Entries of file name file in node p
EntriesOf(p, file) ==
    Len(SelectSeq(directoryObject[p].files, LAMBDA f : f.fileName = file))

\* every accepted artifact has its File Entry in the node of its directory,
\* and the tree holds no other File Entry
EveryAcceptedPlaced ==
    /\ \A i \in Accepted :
        /\ DirOf(assets[i].key) \in DOMAIN directoryObject
        /\ EntriesOf(DirOf(assets[i].key), assets[i].key.file)
            = Cardinality(AcceptedTwins(DirOf(assets[i].key), assets[i].key.file))
    /\ FileEntriesIn(DOMAIN directoryObject) = Cardinality(Accepted)

(***************************************************************************)
(* C14: every artifact that is not rejected adds exactly one File Entry to *)
(* exactly one node, the node whose path is the artifact's directory       *)
(* prefix (the root when there is none), a single leading slash making no  *)
(* difference; the number of File Entries in the tree is the number of     *)
(* artifacts that are not rejected.  (The builder then does not abort.)    *)
(***************************************************************************)
C14_AsStated ==
    /\ pc # "threw"
    /\ pc = "generated" => EveryAcceptedPlaced

\* the same, of the collections none of whose paths has a directory segment
\* that names an inherited object property
C14_OutsideInheritedNames ==
    (\A i \in 1..Len(assets) : ~Shadowed(DirOf(assets[i].key))) =>
        /\ pc # "threw"
        /\ pc = "generated" => EveryAcceptedPlaced

\* /a/one.js and a/one.js both placed in the node of a, a third file at the root
C14_PlacedWitness ==
    /\ pc = "generated"
    /\ Cardinality(Accepted) = 3
    /\ \A i \in 1..Len(assets) : ~Shadowed(DirOf(assets[i].key))
    /\ Len(directoryObject[<<>>].files) = 1
    /\ <<"a">> \in DOMAIN directoryObject
    /\ EntriesOf(<<"a">>, <<"one", "js">>) = 2

(***************************************************************************)
(* C15: for every directory node the scripts text of getMetaScripts is a   *)
(* bracket-delimited list: it starts with an opening bracket, ends with a  *)
(* closing bracket and holds the records separated by single commas, also  *)
(* when the directory has no listed file and no child directory.           *)
(***************************************************************************)
C15_AsStated ==
    pc = "generated" =>
        \A k \in 1..Len(completeMetaJsonInfo) :
            LET scripts == completeMetaJsonInfo[k].content.scripts
                n == Len(Records(scripts))
            IN  /\ Len(scripts) >= 2
                /\ scripts[1] = Punct("[")
                /\ scripts[Len(scripts)] = Punct("]")
                /\ Len(scripts) = (IF n = 0 THEN 2 ELSE 2 * n + 1)
                /\ \A i \in 2..(Len(scripts) - 1) :
                    IF i % 2 = 0 THEN scripts[i].type \in {"action", "folder"}
                    ELSE scripts[i] = Punct(",")

\* the same, of the documents that list a record
C15_BracketedWhenNotEmpty ==
    pc = "generated" =>
        \A k \in 1..Len(completeMetaJsonInfo) :
            LET scripts == completeMetaJsonInfo[k].content.scripts
                n == Len(Records(scripts))
            IN  n > 0 =>
                /\ scripts[1] = Punct("[")
                /\ scripts[Len(scripts)] = Punct("]")
                /\ Len(scripts) = 2 * n + 1
                /\ \A i \in 2..(Len(scripts) - 1) :
                    IF i % 2 = 0 THEN scripts[i].type \in {"action", "folder"}
                    ELSE scripts[i] = Punct(",")

\* the scripts text of a directory that lists nothing is the closing bracket alone
C15_EmptyCatalogIsClosingBracket ==
    pc = "generated" =>
        \A k \in 1..Len(completeMetaJsonInfo) :
            Records(completeMetaJsonInfo[k].content.scripts) = <<>> =>
                completeMetaJsonInfo[k].content.scripts = <<Punct("]")>>

====
